---- MODULE Spec2Model ----
(***************************************************************************)
(* Model of the log-analyzer agent (src/log-analyzer-agent).               *)
(*                                                                         *)
(*   main.py           LogAnalyzerAgent.analyze / execute_tool, the tool   *)
(*                     table, the inline extraction of the final answer    *)
(*   browser_agent.py  LogAnalyzerBrowserAgent._parse_agent_result         *)
(*                                                                         *)
(* A text (a Python str) is a sequence of symbols.  The symbols are the    *)
(* lexical atoms the code looks for: the fence (three backticks, written  *)
(* "fence"), the label "json", the braces, prose, and one symbol per JSON  *)
(* member list.  The length of a text is counted in symbols.  The literal  *)
(* the code calls a json fence is the fence immediately followed by the    *)
(* label, so that the fence is a prefix of it as in the source.            *)
(***************************************************************************)
EXTENDS Integers, Sequences, FiniteSets, TLC

VARIABLES
    \* ---- one call of LogAnalyzerAgent.analyze (main.py:361-450) ----
    messages,    \* the local list `messages`
    iteration,   \* the loop variable of `for iteration in range(max_iterations)`
    pc,          \* position of the call
    idx,         \* index of the next tool_call of the last assistant message
    result,      \* the value returned by analyze, NoReport before that
    error,       \* the exception analyze raised, "none" before that
    requests,    \* number of chat.completions.create calls issued
    dispatched,  \* ids of the tool calls handed to execute_tool, in order
    collab,      \* calls of the functions of TOOL_FUNCTIONS, in order
    deviations,  \* number of non-default choices the environment has made
    sent,        \* the arguments of each chat.completions.create call, in order
    tools,       \* the module-level list TOOLS
    tool_functions,  \* the module-level dict TOOL_FUNCTIONS
    \* ---- one application of the extraction code to one text ----
    text,        \* the final-answer text / str(result)
    truthy,      \* bool(result) of the browser variant's result object
    via,         \* which parser has been applied
    json_str,    \* the candidate substring it selected (the local `json_str`)
    out,         \* what it returned or raised
    \* ---- one call of fetch_error_log (main.py:59-119, test_fetch.py:19-94) ----
    fetch_id,    \* the argument event_id
    fetch_copy,  \* which copy of the function has run: "main", "test", "none"
    fetch_reply, \* what requests.get answered
    plat_name,   \* the local `plat_name`
    fetched,     \* what the function returned or raised
    \* ---- two calls of analyze on one agent, interleaved at their awaits ----
    running,     \* per call: its position, loop variable, outcome and requests
    lists,       \* the list objects the calls have created, by identity
    own          \* per call: the turns appended for it, in order

vars == <<messages, iteration, pc, idx, result, error, requests, dispatched,
          collab, deviations, sent, tools, tool_functions,
          text, truthy, via, json_str, out,
          fetch_id, fetch_copy, fetch_reply, plat_name, fetched,
          running, lists, own>>

registryVars == <<tools, tool_functions>>
agentVars == <<messages, iteration, pc, idx, result, error, requests,
               dispatched, collab, deviations, sent, registryVars>>
parseVars == <<text, truthy, via, json_str, out>>
fetchVars == <<fetch_id, fetch_copy, fetch_reply, plat_name, fetched>>
twoVars == <<running, lists, own>>

(***************************************************************************)
(* Bounds of the model.                                                    *)
(***************************************************************************)
\* chunks a generated text is made of (before the padding)
MaxChunks == 4
\* tool calls one assistant message may carry
MaxCalls == 2
\* non-default choices of the environment within one analyze call
MaxDeviations == 1
\* symbols of the prose before, and after, an embedded report
MaxProse == 2
\* symbols of an event id given to fetch_error_log
MaxIdLen == 3

(***************************************************************************)
(* Program constants.                                                      *)
(***************************************************************************)
max_iterations == 10
SummaryLimit == 200

Min(a, b) == IF a < b THEN a ELSE b

(***************************************************************************)
(* Python str operations on texts.                                         *)
(***************************************************************************)
\* s[:n]
Prefix(s, n) == SubSeq(s, 1, Min(n, Len(s)))

\* positions where pat occurs in s
Occurrences(s, pat) ==
    {i \in 1..(Len(s) - Len(pat) + 1) : \A k \in 1..Len(pat) : s[i + k - 1] = pat[k]}

\* pat in s
Contains(s, pat) == Occurrences(s, pat) # {}

\* s.find(pat), 1-based, 0 when absent
Find(s, pat) ==
    LET occ == Occurrences(s, pat)
    IN  IF occ # {} THEN CHOOSE i \in occ : \A j \in occ : i <= j ELSE 0

\* s.rfind(pat), 1-based, 0 when absent
RFind(s, pat) ==
    LET occ == Occurrences(s, pat)
    IN  IF occ # {} THEN CHOOSE i \in occ : \A j \in occ : i >= j ELSE 0

\* s.split(pat): the pieces between the non-overlapping occurrences, left to right
RECURSIVE Split(_, _)
Split(s, pat) ==
    LET i == Find(s, pat)
    IN  IF i = 0
        THEN <<s>>
        ELSE <<SubSeq(s, 1, i - 1)>> \o Split(SubSeq(s, i + Len(pat), Len(s)), pat)

Whitespace == {"nl"}

\* s.strip()
RECURSIVE Strip(_)
Strip(s) ==
    IF s = <<>> THEN s
    ELSE IF Head(s) \in Whitespace THEN Strip(Tail(s))
    ELSE IF s[Len(s)] \in Whitespace THEN Strip(SubSeq(s, 1, Len(s) - 1))
    ELSE s

Fence == <<"fence">>
FenceJson == <<"fence", "json">>

(***************************************************************************)
(* JSON.  A member list is one symbol; Members gives the dict it denotes.  *)
(* A JSON value is [t |-> "str" | "num", v |-> text].                      *)
(***************************************************************************)
Str(v) == [t |-> "str", v |-> v]
Num(v) == [t |-> "num", v |-> v]

ReportFields ==
    {"event_id", "error_code", "error_summary", "server_status", "risk_level",
     "recommendation"}
ResultRequired ==
    {"event_id", "error_code", "error_summary", "affected_module", "risk_level",
     "recommendation"}
ResultOptional == {"user_info", "raw_error_logs"}

RiskLevels == {<<"low">>, <<"medium">>, <<"high">>, <<"critical">>}

MemberSymbols == {"M_full", "M_main", "M_missing", "M_badrisk", "M_nonstr"}

FullDict ==
    [k \in ReportFields \cup ResultRequired |->
        IF k = "risk_level" THEN Str(<<"high">>) ELSE Str(<<"v", k>>)]

\* member lists of tool-call arguments
ArgMemberSymbols == {"K_event", "K_service"}
AllMemberSymbols == MemberSymbols \cup ArgMemberSymbols

Members(m) ==
    CASE m = "K_event"   -> [k \in {"event_id"} |-> Str(<<"EVT">>)]
      [] m = "K_service" -> [k \in {"service_name"} |-> Str(<<"order-service">>)]
      [] m = "M_full"    -> FullDict
      [] m = "M_main"    -> [k \in ReportFields |-> FullDict[k]]
      [] m = "M_missing" -> [k \in (ReportFields \cup ResultRequired) \ {"event_id"}
                                |-> FullDict[k]]
      [] m = "M_badrisk" -> [FullDict EXCEPT !["risk_level"] = Str(<<"urgent">>)]
      [] m = "M_nonstr"  -> [FullDict EXCEPT !["risk_level"] = Num(<<"3">>)]

\* a member list in which a string value holds three backticks (a code
\* snippet in the recommendation): the fence is one of its symbols
FencedMembers == <<"M_head", "fence", "M_tail">>
FencedDict ==
    [FullDict EXCEPT !["recommendation"] = Str(<<"run", "fence", "ls">>)]

\* json.loads(s): ok = FALSE is json.JSONDecodeError.  Whitespace between the
\* JSON tokens is insignificant.
JsonLoads(s) ==
    LET t == SelectSeq(s, LAMBDA c : c \notin Whitespace)
    IN  IF Len(t) = 3 /\ t[1] = "{" /\ t[2] \in AllMemberSymbols /\ t[3] = "}"
        THEN [ok |-> TRUE, kind |-> "object", dict |-> Members(t[2])]
        ELSE IF t = <<"{">> \o FencedMembers \o <<"}">>
        THEN [ok |-> TRUE, kind |-> "object", dict |-> FencedDict]
        ELSE IF t = <<"{", "}">>
        THEN [ok |-> TRUE, kind |-> "object", dict |-> <<>>]
        ELSE IF t = <<"[", "]">>
        THEN [ok |-> TRUE, kind |-> "array", dict |-> <<>>]
        ELSE [ok |-> FALSE, kind |-> "none", dict |-> <<>>]

(***************************************************************************)
(* The pydantic models and what calling them with **data does.             *)
(***************************************************************************)
NoneStr == <<"None">>
NoReport == [none |-> TRUE]

Returned(r, deg) == [kind |-> "return", exc |-> "none", degraded |-> deg, report |-> r]
Raised(e) == [kind |-> "raise", exc |-> e, degraded |-> FALSE, report |-> NoReport]
NoOutcome == [kind |-> "none", exc |-> "none", degraded |-> FALSE, report |-> NoReport]

\* Model(**data) for a pydantic model with the given required and optional str
\* fields: a non-mapping is a TypeError of the call itself, a missing or
\* non-string field a pydantic ValidationError (pydantic 2, which the
\* browser-use 0.11 of browser_agent.py:70 requires, does not coerce a number
\* to str), unknown keys are ignored.
Construct(parsed, required, optional) ==
    IF parsed.kind # "object" THEN Raised("TypeError")
    ELSE LET d == parsed.dict
             given == DOMAIN d
         IN  IF \/ required \ given # {}
                \/ \E k \in (required \cup optional) \cap given : d[k].t # "str"
             THEN Raised("ValidationError")
             ELSE Returned([k \in required \cup optional |->
                               IF k \in given THEN d[k].v ELSE NoneStr], FALSE)

AnalysisReport(parsed) == Construct(parsed, ReportFields, {})
LogAnalysisResult(parsed) == Construct(parsed, ResultRequired, ResultOptional)

(***************************************************************************)
(* Extraction of the report from the final answer.                         *)
(***************************************************************************)
\* main.py:429-434
InlineCandidate(content) ==
    IF Contains(content, FenceJson)
    THEN Split(Split(content, FenceJson)[2], Fence)[1]
    ELSE IF Contains(content, Fence)
    THEN Split(Split(content, Fence)[2], Fence)[1]
    ELSE content

\* the degraded report with the whole content as its summary
InlineFallbackWholeText(content) ==
    [event_id       |-> <<"UNKNOWN">>,
     error_code     |-> <<"PARSE_ERROR">>,
     error_summary  |-> IF content # <<>> THEN content
                        ELSE <<"cannot parse model output">>,
     server_status  |-> <<"unknown">>,
     risk_level     |-> <<"medium">>,
     recommendation |-> <<"check the agent output format">>]

\* main.py:441-448
InlineFallback(content) ==
    [event_id       |-> <<"UNKNOWN">>,
     error_code     |-> <<"PARSE_ERROR">>,
     error_summary  |-> IF content # <<>> THEN Prefix(content, SummaryLimit)
                        ELSE <<"cannot parse model output">>,
     server_status  |-> <<"unknown">>,
     risk_level     |-> <<"medium">>,
     recommendation |-> <<"check the agent output format">>]

\* main.py:427-448: only json.JSONDecodeError, IndexError and KeyError are caught
ExtractInline(content) ==
    LET parsed == JsonLoads(Strip(InlineCandidate(content)))
    IN  IF ~parsed.ok
        THEN Returned(InlineFallback(content), TRUE)
        ELSE AnalysisReport(parsed)

\* browser_agent.py:179-189
BrowserCandidate(content) ==
    IF Contains(content, FenceJson)
    THEN Split(Split(content, FenceJson)[2], Fence)[1]
    ELSE IF Contains(content, Fence)
    THEN Split(Split(content, Fence)[2], Fence)[1]
    ELSE IF Contains(content, <<"{">>) /\ Contains(content, <<"}">>)
    THEN SubSeq(content, Find(content, <<"{">>), RFind(content, <<"}">>))
    ELSE content

\* browser_agent.py:197-204; res is the result object: its str() and its bool()
BrowserFallback(res, event_id) ==
    [event_id        |-> event_id,
     error_code      |-> <<"PARSE_ERROR">>,
     error_summary   |-> IF res.truthy THEN Prefix(res.str, SummaryLimit)
                         ELSE <<"cannot parse agent output">>,
     affected_module |-> <<"unknown">>,
     user_info       |-> NoneStr,
     risk_level      |-> <<"medium">>,
     recommendation  |-> <<"check the log page or the browser window">>,
     raw_error_logs  |-> NoneStr]

\* browser_agent.py:172-204: every Exception is caught
ParseAgentResult(res, event_id) ==
    LET content == res.str
        parsed  == JsonLoads(Strip(BrowserCandidate(content)))
        built   == LogAnalysisResult(parsed)
    IN  IF ~parsed.ok \/ built.kind = "raise"
        THEN Returned(BrowserFallback(res, event_id), TRUE)
        ELSE built

(***************************************************************************)
(* The texts the extraction is applied to: up to MaxChunks chunks, the     *)
(* JSON chunk rendered with one payload, followed by prose padding.        *)
(***************************************************************************)
ChunkNames == {"prose", "labelled", "fencejson", "fence", "value", "open", "close"}
Payloads == MemberSymbols \cup {"array"}
PadChoices == {0, SummaryLimit}

\* the JSON text of a payload
Json(m) ==
    IF m = "array" THEN <<"[", "]">>
    ELSE IF m = "M_fenced" THEN <<"{">> \o FencedMembers \o <<"}">>
    ELSE <<"{", m, "}">>

RenderChunk(c, m) ==
    CASE c = "prose"     -> <<"p">>
      [] c = "labelled"  -> FenceJson \o <<"nl">> \o Json(m) \o <<"nl">> \o Fence
      [] c = "fencejson" -> FenceJson
      [] c = "fence"     -> Fence
      [] c = "open"      -> <<"{">>
      [] c = "close"     -> <<"}">>
      [] c = "value"     -> Json(m)

RECURSIVE Render(_, _)
Render(cs, m) ==
    IF cs = <<>> THEN <<>> ELSE RenderChunk(Head(cs), m) \o Render(Tail(cs), m)

Pad(n) == [i \in 1..n |-> "p"]

ChunkSeqs == UNION {[1..n -> ChunkNames] : n \in 0..MaxChunks}

CallEventId == <<"EVT">>


(***************************************************************************)
(* The tools (main.py:59-278).                                             *)
(***************************************************************************)
\* replies of the log service to requests.get (main.py:89-116)
HttpReplies == {"logs", "network_error", "login", "badjson", "raw", "baditems"}

TextResult(t) == [kind |-> "return", exc |-> "none", text |-> t]
RaisedResult(e) == [kind |-> "raise", exc |-> e, text |-> <<>>]

\* further replies, drawn when fetch_error_log is run on its own
FetchReplies == HttpReplies \cup {"timeout", "http_error", "login_jump", "noresult"}

\* requests.get raises a RequestException: no response
NoResponse == {"network_error", "timeout"}

\* response.text: "login_marker" is the phrase of the login page, the symbol
\* behind the prefix is the member list of the JSON payload
Body(reply) ==
    CASE reply = "logs"       -> <<"var log_result=", "{", "R_content", "}">>
      [] reply = "login"      -> <<"login_marker", "p">>
      [] reply = "login_jump" -> <<"urlJump", "p">>
      [] reply = "badjson"    -> <<"var log_result=", "{", "p">>
      [] reply = "raw"        -> <<"p">>
      [] reply = "baditems"   -> <<"var log_result=", "{", "R_numbers", "}">>
      [] reply = "noresult"   -> <<"var log_result=", "{", "R_none", "}">>
      [] reply = "http_error" -> <<"p">>
      [] OTHER                -> <<>>

\* json.loads of the payload behind the prefix: R_content is a result list of
\* objects with a content string, R_numbers a result list of numbers, R_none
\* an object without result
LogJson(s) ==
    IF Len(s) = 3 /\ s[1] = "{" /\ s[2] \in {"R_content", "R_numbers", "R_none"}
                  /\ s[3] = "}"
    THEN [ok |-> TRUE, result |-> s[2]]
    ELSE [ok |-> FALSE, result |-> "none"]

\* json.dumps(log_data, ensure_ascii=False, indent=2) of the parsed payload
Dumps(payload) == <<"json.dumps">> \o payload

ErrorText == <<"[ERROR] fetch failed">>
LoginText == <<"[ERROR] login required, set LOG_SERVICE_COOKIE">>

\* the tag taken behind the last separator instead of before the first
PlatNameBeforeLastSeparator(event_id) ==
    IF Contains(event_id, <<"-">>)
    THEN SubSeq(event_id, 1, RFind(event_id, <<"-">>) - 1)
    ELSE <<"A", "M", "S">>

\* main.py:67
PlatName(event_id) ==
    IF Contains(event_id, <<"-">>) THEN Split(event_id, <<"-">>)[1]
    ELSE <<"A", "M", "S">>

\* test_fetch.py:22
TestPlatName(event_id) ==
    IF Contains(event_id, <<"-">>) THEN Split(event_id, <<"-">>)[1]
    ELSE <<"A", "M", "S">>

\* main.py:59-119
fetch_error_log(event_id, reply) ==
    IF reply \in NoResponse \/ reply = "http_error"
    THEN TextResult(ErrorText)
    ELSE LET content == Body(reply)
         IN  IF \/ Contains(content, <<"login_marker">>)
                \/ Contains(content, <<"urlJump">>)
             THEN TextResult(LoginText)
             ELSE IF Prefix(content, 1) = <<"var log_result=">>
             THEN LET log_data == LogJson(Tail(content))
                  IN  IF ~log_data.ok THEN TextResult(content)
                      ELSE IF log_data.result = "R_content"
                      THEN TextResult(<<"log lines of">> \o event_id)
                      ELSE IF log_data.result = "R_numbers"
                      THEN RaisedResult("TypeError")
                      ELSE TextResult(Dumps(Tail(content)))
             ELSE TextResult(content)

\* test_fetch.py:19-94
test_fetch_error_log(event_id, reply) ==
    IF reply \in NoResponse
    THEN TextResult(<<>>)
    ELSE LET content == Body(reply)
         IN  IF \/ Contains(content, <<"login_marker">>)
                \/ Contains(content, <<"ret-10">>)
             THEN TextResult(content)
             ELSE IF Prefix(content, 1) = <<"var log_result=">>
             THEN LET log_data == LogJson(Tail(content))
                  IN  IF ~log_data.ok THEN TextResult(content)
                      ELSE IF log_data.result = "R_numbers"
                      THEN RaisedResult("TypeError")
                      ELSE TextResult(Dumps(Tail(content)))
             ELSE TextResult(content)

\* main.py:122-233
check_server_status(service_name) ==
    TextResult(<<"Service Health Report:">> \o service_name)

\* main.py:237-272: the descriptors, each by its function name and its required
\* parameters, in the order of the list
TOOLS ==
    <<[name |-> "fetch_error_log", required |-> <<"event_id">>],
      [name |-> "check_server_status", required |-> <<"service_name">>]>>

\* main.py:275-278, with the parameter names of each function
TOOL_FUNCTIONS ==
    [n \in {"fetch_error_log", "check_server_status"} |->
        IF n = "fetch_error_log" THEN {"event_id"} ELSE {"service_name"}]

\* main.py:351-359: `arguments` is what json.loads returned, `reply` what the
\* log service answers if it is asked
execute_tool(tool_name, arguments, reply) ==
    IF tool_name \in DOMAIN tool_functions
    THEN IF arguments.kind # "object" \/ DOMAIN arguments.dict # tool_functions[tool_name]
         THEN RaisedResult("TypeError")
         ELSE IF tool_name = "fetch_error_log"
         THEN fetch_error_log(arguments.dict["event_id"].v, reply)
         ELSE check_server_status(arguments.dict["service_name"].v)
    ELSE TextResult(<<"Error: Unknown tool", tool_name>>)

\* does execute_tool call a function of TOOL_FUNCTIONS
CallsCollaborator(tool_name, arguments) ==
    /\ tool_name \in DOMAIN tool_functions
    /\ arguments.kind = "object"
    /\ DOMAIN arguments.dict = tool_functions[tool_name]

(***************************************************************************)
(* What the language model may answer.                                     *)
(***************************************************************************)
RequestedNames == {"fetch_error_log", "check_server_status", "bogus_tool"}
ArgTexts == {<<"{", "K_event", "}">>, <<"{", "K_service", "}">>, <<"{", "p">>}

\* the usual turn: fetch the log first, then ask for the status of its service
DefaultCall(k) ==
    IF k = 1 THEN <<"fetch_error_log", <<"{", "K_event", "}">> >>
    ELSE <<"check_server_status", <<"{", "K_service", "}">> >>

ToolCall(id, name, arguments) == [id |-> id, name |-> name, arguments |-> arguments]

\* the (name, arguments) lists a response may carry
ToolCallLists ==
    UNION {[1..n -> RequestedNames \X ArgTexts] : n \in 1..MaxCalls}

\* the tool_calls of the response to request number it: the ids are unique
MakeCalls(it, l) == [k \in 1..Len(l) |-> ToolCall(<<it, k>>, l[k][1], l[k][2])]

\* content of an assistant message that also carries tool calls
ToolTurnContents == {NoneStr, <<"{", "M_full", "}">>}

\* final answers
FinalTexts ==
    {NoneStr, <<>>, <<"p", "p">>, Pad(SummaryLimit + 1),
     <<"p">> \o FenceJson \o <<"nl", "{", "M_full", "}", "nl">> \o Fence \o <<"p">>,
     FenceJson \o <<"{", "M_badrisk", "}">> \o Fence,
     <<"p", "{", "M_full", "}", "p">>,
     <<"{", "M_main", "}">>, <<"{", "M_missing", "}">>, <<"{", "M_nonstr", "}">>,
     <<"[", "]">>}

\* how far a response is from the default one (one fetch_error_log call with
\* well-formed arguments and no content): its further calls, its unusual calls
\* and its content each count
Cost(l, content) ==
    (Len(l) - 1)
    + Cardinality({k \in 1..Len(l) : l[k] # DefaultCall(k)})
    + (IF content = NoneStr THEN 0 ELSE 1)

(***************************************************************************)
(* LogAnalyzerAgent.analyze (main.py:361-450).                             *)
(***************************************************************************)
Msg(role, content, tool_calls, tool_call_id) ==
    [role |-> role, content |-> content, tool_calls |-> tool_calls,
     tool_call_id |-> tool_call_id]

NoId == <<>>
SystemPrompt == <<"system prompt">>
UserInputs == {<<"flow id", "EVT">>}

\* the result turn put right behind the assistant message instead of at the end
InsertToolResultFirst(msgs, id, content) ==
    LET a == CHOOSE i \in 1..Len(msgs) :
                 /\ msgs[i].role = "assistant"
                 /\ \A j \in (i + 1)..Len(msgs) : msgs[j].role # "assistant"
    IN  SubSeq(msgs, 1, a) \o <<Msg("tool", content, <<>>, id)>>
        \o SubSeq(msgs, a + 1, Len(msgs))

\* the result turn written over the last turn instead of behind it
ReplaceLastTurn(msgs, id, content) ==
    Append(SubSeq(msgs, 1, Len(msgs) - 1), Msg("tool", content, <<>>, id))

\* the result turn appended without the correlation id of its invocation
AppendUntaggedResult(msgs, id, content) ==
    Append(msgs, Msg("tool", content, <<>>, NoId))

\* main.py:415-419
AppendToolResult(msgs, id, content) == Append(msgs, Msg("tool", content, <<>>, id))

\* the assistant message whose tool calls are being dispatched
CurrentCalls == messages[Len(messages) - (idx - 1)].tool_calls

\* no call of fetch_error_log on its own is under way
FetchIdle ==
    /\ fetch_id = <<>>
    /\ fetch_copy = "none"
    /\ fetch_reply = "none"
    /\ plat_name = <<>>
    /\ fetched = [kind |-> "none", exc |-> "none", text |-> <<>>]

\* no second call of analyze is modelled
TwoIdle ==
    /\ running = <<>>
    /\ lists = <<>>
    /\ own = <<>>

Init ==
    /\ \E u \in UserInputs :
          messages = <<Msg("system", SystemPrompt, <<>>, NoId), Msg("user", u, <<>>, NoId)>>
    /\ iteration = 0
    /\ pc = "loop"
    /\ idx = 0
    /\ result = NoReport
    /\ error = "none"
    /\ requests = 0
    /\ dispatched = <<>>
    /\ collab = <<>>
    /\ deviations = 0
    /\ sent = <<>>
    /\ tools = TOOLS
    /\ tool_functions = TOOL_FUNCTIONS
    /\ FetchIdle
    /\ TwoIdle
    /\ text = <<>>
    /\ truthy = FALSE
    /\ via = "none"
    /\ json_str = <<>>
    /\ out = NoOutcome

\* a request that carries only the latest turn of the conversation
RequestLatestOnly(msgs, descriptors) ==
    [messages |-> SubSeq(msgs, Len(msgs), Len(msgs)), tools |-> descriptors]

\* main.py:382-387: the keyword arguments messages and tools of create()
Request(msgs, descriptors) == [messages |-> msgs, tools |-> descriptors]

\* the request sent without waiting for the tool calls of the turn
SendRequestEarly ==
    /\ pc \in {"loop", "tools"}
    /\ iteration < max_iterations
    /\ requests' = requests + 1
    /\ sent' = Append(sent, Request(messages, tools))
    /\ pc' = "await_model"
    /\ UNCHANGED <<messages, iteration, idx, result, error, dispatched, collab,
                   deviations, registryVars, parseVars, fetchVars, twoVars>>

\* main.py:379-387: the loop has an iteration left, the request is sent
SendRequest ==
    /\ pc = "loop"
    /\ iteration < max_iterations
    /\ requests' = requests + 1
    /\ sent' = Append(sent, Request(messages, tools))
    /\ pc' = "await_model"
    /\ UNCHANGED <<messages, iteration, idx, result, error, dispatched, collab,
                   deviations, registryVars, parseVars, fetchVars, twoVars>>

\* main.py:389-401: a response with tool calls
ReceiveToolCalls ==
    /\ pc = "await_model"
    /\ \E l \in ToolCallLists, c \in ToolTurnContents :
          /\ deviations + Cost(l, c) <= MaxDeviations
          /\ deviations' = deviations + Cost(l, c)
          /\ messages' = Append(messages,
                                Msg("assistant", c, MakeCalls(iteration + 1, l), NoId))
    /\ idx' = 1
    /\ pc' = "tools"
    /\ UNCHANGED <<iteration, result, error, requests, dispatched, collab, sent,
                   registryVars, parseVars, fetchVars, twoVars>>

\* main.py:389-400, 420-448: a response without tool calls is the final answer
ReceiveFinalAnswer ==
    /\ pc = "await_model"
    /\ \E c \in FinalTexts :
          LET content == IF c = NoneStr THEN <<>> ELSE c
              o == ExtractInline(content)
          IN  /\ messages' = Append(messages, Msg("assistant", c, <<>>, NoId))
              /\ IF o.kind = "return"
                 THEN pc' = "done" /\ result' = o.report /\ error' = "none"
                 ELSE pc' = "failed" /\ result' = NoReport /\ error' = o.exc
    /\ UNCHANGED <<iteration, idx, requests, dispatched, collab, deviations, sent,
                   registryVars, parseVars, fetchVars, twoVars>>

\* the for loop left after its first turn, the remaining tool calls skipped
SkipRemainingCalls(n) ==
    pc' = "loop" /\ iteration' = iteration + 1 /\ idx' = 0

\* after the last tool call of a message the for loop takes its next iteration
AfterCall(n) ==
    IF idx = n
    THEN pc' = "loop" /\ iteration' = iteration + 1 /\ idx' = 0
    ELSE pc' = "tools" /\ iteration' = iteration /\ idx' = idx + 1

\* main.py:402-419: one turn of `for tool_call in assistant_message.tool_calls`
DispatchTool ==
    /\ pc = "tools"
    /\ LET call == CurrentCalls[idx]
           arguments == JsonLoads(call.arguments)
       IN  IF ~arguments.ok
           THEN /\ pc' = "failed"
                /\ error' = "JSONDecodeError"
                /\ UNCHANGED <<messages, iteration, idx, dispatched, collab, deviations>>
           ELSE \E reply \in HttpReplies :
                  LET r == execute_tool(call.name, arguments, reply)
                      called == CallsCollaborator(call.name, arguments)
                  IN  /\ IF called /\ call.name = "fetch_error_log" /\ reply # "logs"
                         THEN deviations < MaxDeviations /\ deviations' = deviations + 1
                         ELSE reply = "logs" /\ deviations' = deviations
                      /\ dispatched' = Append(dispatched, call.id)
                      /\ collab' = IF called
                                   THEN Append(collab, [fn |-> call.name, id |-> call.id])
                                   ELSE collab
                      /\ IF r.kind = "return"
                         THEN /\ messages' = AppendToolResult(messages, call.id, r.text)
                              /\ AfterCall(Len(CurrentCalls))
                              /\ error' = "none"
                         ELSE /\ pc' = "failed"
                              /\ error' = r.exc
                              /\ UNCHANGED <<messages, iteration, idx>>
    /\ UNCHANGED <<result, requests, sent, registryVars, parseVars, fetchVars, twoVars>>

\* the failure raised as soon as the last permitted response has arrived,
\* before its tool calls are dispatched
BudgetExceededEarly ==
    /\ \/ pc = "loop" /\ iteration = max_iterations
       \/ pc = "tools" /\ iteration = max_iterations - 1
    /\ pc' = "failed"
    /\ error' = "RuntimeError"
    /\ UNCHANGED <<messages, iteration, idx, result, requests, dispatched, collab,
                   deviations, sent, registryVars, parseVars, fetchVars, twoVars>>

\* main.py:450: the loop is exhausted
BudgetExceeded ==
    /\ pc = "loop"
    /\ iteration = max_iterations
    /\ pc' = "failed"
    /\ error' = "RuntimeError"
    /\ UNCHANGED <<messages, iteration, idx, result, requests, dispatched, collab,
                   deviations, sent, registryVars, parseVars, fetchVars, twoVars>>

Next ==
    \/ SendRequest
    \/ ReceiveToolCalls
    \/ ReceiveFinalAnswer
    \/ DispatchTool
    \/ BudgetExceeded

Spec == Init /\ [][Next]_vars

(***************************************************************************)
(* analyze with a model that writes text into every turn that also         *)
(* requests tools: the text is no choice of its own and is not counted.    *)
(***************************************************************************)
\* main.py:389-401: a response with tool calls and with content
ReceiveToolCallsWithContent ==
    /\ pc = "await_model"
    /\ \E l \in ToolCallLists, c \in ToolTurnContents \ {NoneStr} :
          /\ deviations + Cost(l, NoneStr) <= MaxDeviations
          /\ deviations' = deviations + Cost(l, NoneStr)
          /\ messages' = Append(messages,
                                Msg("assistant", c, MakeCalls(iteration + 1, l), NoId))
    /\ idx' = 1
    /\ pc' = "tools"
    /\ UNCHANGED <<iteration, result, error, requests, dispatched, collab, sent,
                   registryVars, parseVars, fetchVars, twoVars>>

NextTalkative ==
    \/ SendRequest
    \/ ReceiveToolCallsWithContent
    \/ ReceiveFinalAnswer
    \/ DispatchTool
    \/ BudgetExceeded

SpecTalkative == Init /\ [][NextTalkative]_vars

(***************************************************************************)
(* The two extraction routines applied to every generated text.            *)
(***************************************************************************)
InitExtract ==
    /\ \E cs \in ChunkSeqs, m \in Payloads, n \in PadChoices :
          text = Render(cs, m) \o Pad(n)
    /\ truthy = FALSE
    /\ via = "none"
    /\ json_str = <<>>
    /\ out = NoOutcome
    /\ messages = <<>>
    /\ iteration = 0
    /\ pc = "idle"
    /\ idx = 0
    /\ result = NoReport
    /\ error = "none"
    /\ requests = 0
    /\ dispatched = <<>>
    /\ collab = <<>>
    /\ deviations = 0
    /\ sent = <<>>
    /\ tools = TOOLS
    /\ tool_functions = TOOL_FUNCTIONS
    /\ FetchIdle
    /\ TwoIdle

\* main.py:426-448 applied to the final content
ApplyInline ==
    /\ via = "none"
    /\ via' = "inline"
    /\ json_str' = InlineCandidate(text)
    /\ out' = ExtractInline(text)
    /\ UNCHANGED <<text, truthy, agentVars, fetchVars, twoVars>>

\* browser_agent.py:166: self._parse_agent_result(result, event_id)
ApplyBrowser ==
    /\ via = "none"
    /\ via' = "browser"
    /\ json_str' = BrowserCandidate(text)
    /\ \E b \in BOOLEAN :
          /\ truthy' = b
          /\ out' = ParseAgentResult([str |-> text, truthy |-> b], CallEventId)
    /\ UNCHANGED <<text, agentVars, fetchVars, twoVars>>

NextExtract == ApplyInline \/ ApplyBrowser

SpecExtract == InitExtract /\ [][NextExtract]_vars


(***************************************************************************)
(* The two extraction routines applied to final answers that embed a       *)
(* report object in a json-labelled fence between two pieces of prose.     *)
(***************************************************************************)
\* report objects with every field of both report classes, all strings
WellFormedPayloads == {"M_full", "M_badrisk", "M_fenced"}

\* what the prose around the fence is made of
ProseSymbols == {"p", "nl", "{", "fence"}
ProseTexts == UNION {[1..n -> ProseSymbols] : n \in 0..MaxProse}

\* the final answer: prose, the labelled fence around the serialization, prose
Embed(before, m, after) ==
    before \o FenceJson \o <<"nl">> \o Json(m) \o <<"nl">> \o Fence \o after

InitRoundTrip ==
    /\ \E before \in ProseTexts, after \in ProseTexts, m \in WellFormedPayloads :
          text = Embed(before, m, after)
    /\ truthy = FALSE
    /\ via = "none"
    /\ json_str = <<>>
    /\ out = NoOutcome
    /\ messages = <<>>
    /\ iteration = 0
    /\ pc = "idle"
    /\ idx = 0
    /\ result = NoReport
    /\ error = "none"
    /\ requests = 0
    /\ dispatched = <<>>
    /\ collab = <<>>
    /\ deviations = 0
    /\ sent = <<>>
    /\ tools = TOOLS
    /\ tool_functions = TOOL_FUNCTIONS
    /\ FetchIdle
    /\ TwoIdle

SpecRoundTrip == InitRoundTrip /\ [][NextExtract]_vars

(***************************************************************************)
(* Both copies of fetch_error_log run on their own.                        *)
(***************************************************************************)
IdSymbols == {"D", "J", "-"}
Identifiers == UNION {[1..n -> IdSymbols] : n \in 0..MaxIdLen}

InitFetch ==
    /\ fetch_id \in Identifiers
    /\ fetch_copy = "none"
    /\ fetch_reply = "none"
    /\ plat_name = <<>>
    /\ fetched = [kind |-> "none", exc |-> "none", text |-> <<>>]
    /\ text = <<>>
    /\ truthy = FALSE
    /\ via = "none"
    /\ json_str = <<>>
    /\ out = NoOutcome
    /\ messages = <<>>
    /\ iteration = 0
    /\ pc = "idle"
    /\ idx = 0
    /\ result = NoReport
    /\ error = "none"
    /\ requests = 0
    /\ dispatched = <<>>
    /\ collab = <<>>
    /\ deviations = 0
    /\ sent = <<>>
    /\ tools = TOOLS
    /\ tool_functions = TOOL_FUNCTIONS
    /\ TwoIdle

\* main.py:59-119
FetchMain ==
    /\ fetch_copy = "none"
    /\ fetch_copy' = "main"
    /\ plat_name' = PlatName(fetch_id)
    /\ \E reply \in FetchReplies :
          /\ fetch_reply' = reply
          /\ fetched' = fetch_error_log(fetch_id, reply)
    /\ UNCHANGED <<fetch_id, agentVars, parseVars, twoVars>>

\* test_fetch.py:19-94
FetchTest ==
    /\ fetch_copy = "none"
    /\ fetch_copy' = "test"
    /\ plat_name' = TestPlatName(fetch_id)
    /\ \E reply \in FetchReplies :
          /\ fetch_reply' = reply
          /\ fetched' = test_fetch_error_log(fetch_id, reply)
    /\ UNCHANGED <<fetch_id, agentVars, parseVars, twoVars>>

NextFetch == FetchMain \/ FetchTest

SpecFetch == InitFetch /\ [][NextFetch]_vars

(***************************************************************************)
(* Two calls of analyze on the same agent (main.py:361-450).  Each call    *)
(* takes one step at a time; the steps of the two calls interleave at the  *)
(* awaits.  The model answers with the usual tool call or a final answer.  *)
(***************************************************************************)
Calls == {1, 2}

UserInputOf(c) == <<"flow id", "EVT", c>>

\* final answers of the two calls
TwoFinalTexts ==
    {<<"p", "p">>,
     FenceJson \o <<"nl", "{", "M_full", "}", "nl">> \o Fence,
     <<"[", "]">>}

\* one list for all calls, as if the conversation were kept on the agent
AgentList(c) == 1

\* main.py:369: the list the local name `messages` of call c is bound to is
\* created by the call
OwnList(c) == c

Conversation(c) == lists[OwnList(c)]

\* main.py:369-372
InitialTurns(c) ==
    <<Msg("system", SystemPrompt, <<>>, NoId), Msg("user", UserInputOf(c), <<>>, NoId)>>

NotStarted ==
    [pc |-> "start", iteration |-> 0, idx |-> 0, result |-> NoReport,
     error |-> "none", sent |-> <<>>]

InitTwo ==
    /\ running = [c \in Calls |-> NotStarted]
    /\ lists = [c \in Calls |-> <<>>]
    /\ own = [c \in Calls |-> <<>>]
    /\ text = <<>>
    /\ truthy = FALSE
    /\ via = "none"
    /\ json_str = <<>>
    /\ out = NoOutcome
    /\ messages = <<>>
    /\ iteration = 0
    /\ pc = "idle"
    /\ idx = 0
    /\ result = NoReport
    /\ error = "none"
    /\ requests = 0
    /\ dispatched = <<>>
    /\ collab = <<>>
    /\ deviations = 0
    /\ sent = <<>>
    /\ tools = TOOLS
    /\ tool_functions = TOOL_FUNCTIONS
    /\ FetchIdle

\* messages.append(m) in call c
AppendTurn(c, m) ==
    /\ lists' = [lists EXCEPT ![OwnList(c)] = Append(@, m)]
    /\ own' = [own EXCEPT ![c] = Append(@, m)]

\* main.py:369-378: the call is entered
TwoStart(c) ==
    /\ running[c].pc = "start"
    /\ lists' = [lists EXCEPT ![OwnList(c)] = InitialTurns(c)]
    /\ own' = [own EXCEPT ![c] = InitialTurns(c)]
    /\ running' = [running EXCEPT ![c].pc = "loop"]

\* main.py:379-387
TwoSendRequest(c) ==
    /\ running[c].pc = "loop"
    /\ running[c].iteration < max_iterations
    /\ running' = [running EXCEPT
                      ![c].pc = "await_model",
                      ![c].sent = Append(@, Request(Conversation(c), tools))]
    /\ UNCHANGED <<lists, own>>

\* main.py:389-401
TwoReceiveToolCalls(c) ==
    /\ running[c].pc = "await_model"
    /\ AppendTurn(c, Msg("assistant", NoneStr,
                         MakeCalls(running[c].iteration + 1, <<DefaultCall(1)>>), NoId))
    /\ running' = [running EXCEPT ![c].pc = "tools", ![c].idx = 1]

\* main.py:389-400, 420-448
TwoReceiveFinalAnswer(c) ==
    /\ running[c].pc = "await_model"
    /\ \E t \in TwoFinalTexts :
          LET o == ExtractInline(t)
          IN  /\ AppendTurn(c, Msg("assistant", t, <<>>, NoId))
              /\ running' = [running EXCEPT
                                ![c].pc = IF o.kind = "return" THEN "done" ELSE "failed",
                                ![c].result = o.report,
                                ![c].error = o.exc]

\* main.py:402-419: one turn of the for loop over the tool calls
TwoDispatchTool(c) ==
    /\ running[c].pc = "tools"
    /\ LET conv == Conversation(c)
           calls == conv[Len(conv) - (running[c].idx - 1)].tool_calls
           tool_call == calls[running[c].idx]
           r == execute_tool(tool_call.name, JsonLoads(tool_call.arguments), "logs")
       IN  /\ AppendTurn(c, Msg("tool", r.text, <<>>, tool_call.id))
           /\ running' =
                 IF running[c].idx = Len(calls)
                 THEN [running EXCEPT ![c].pc = "loop", ![c].idx = 0,
                                      ![c].iteration = @ + 1]
                 ELSE [running EXCEPT ![c].idx = @ + 1]

\* main.py:450
TwoBudgetExceeded(c) ==
    /\ running[c].pc = "loop"
    /\ running[c].iteration = max_iterations
    /\ running' = [running EXCEPT ![c].pc = "failed", ![c].error = "RuntimeError"]
    /\ UNCHANGED <<lists, own>>

NextTwo ==
    /\ \E c \in Calls :
          \/ TwoStart(c)
          \/ TwoSendRequest(c)
          \/ TwoReceiveToolCalls(c)
          \/ TwoReceiveFinalAnswer(c)
          \/ TwoDispatchTool(c)
          \/ TwoBudgetExceeded(c)
    /\ UNCHANGED <<agentVars, parseVars, fetchVars>>

SpecTwo == InitTwo /\ [][NextTwo]_vars

(***************************************************************************)
(* Properties.                                                             *)
(***************************************************************************)
Ended == pc \in {"done", "failed"}

AssistantPositions == {p \in 1..Len(messages) : messages[p].role = "assistant"}

\* the assistant turn a tool-result turn at position q answers: the nearest
\* assistant turn before it
Requester(q) ==
    CHOOSE p \in AssistantPositions :
        p < q /\ \A r \in AssistantPositions : r < q => r <= p

\* C1: analyze fails only with the iteration-budget-exceeded error: whatever
\* the model answers and the tools return, a call that has failed has raised
\* the RuntimeError of main.py:450 and no other exception.
C1_FailsOnlyWithBudgetError == pc = "failed" => error = "RuntimeError"

\* C2: once the model has returned its first tool-call-free turn as its k-th
\* response (k <= 10), analyze has ended after exactly k model requests and has
\* returned a report.
C2_FinalTurnReturnsReport ==
    (\E p \in AssistantPositions : messages[p].tool_calls = <<>>)
        => /\ pc = "done"
           /\ result # NoReport
           /\ requests = Cardinality(AssistantPositions)
           /\ requests <= max_iterations

\* C3: at most 10 model requests are ever issued, and when the model has issued
\* tool calls on each of its first 10 turns the call ends with the
\* budget-exceeded error after exactly 10 requests and returns no report.
C3_BudgetExceededAfterTenToolTurns ==
    /\ requests <= max_iterations
    /\ ( /\ Ended
         /\ Cardinality(AssistantPositions) = max_iterations
         /\ \A p \in AssistantPositions : messages[p].tool_calls # <<>> )
        => /\ pc = "failed"
           /\ error = "RuntimeError"
           /\ requests = max_iterations
           /\ result = NoReport

RECURSIVE IdsFrom(_, _)
\* the ids of the invocations requested from position i on, in the order the
\* model returned them
IdsFrom(msgs, i) ==
    IF i > Len(msgs) THEN <<>>
    ELSE [k \in 1..Len(msgs[i].tool_calls) |-> msgs[i].tool_calls[k].id]
         \o IdsFrom(msgs, i + 1)

RequestedIds(msgs) == IdsFrom(msgs, 1)

IsPrefix(a, b) == Len(a) <= Len(b) /\ SubSeq(b, 1, Len(a)) = a

\* C4: tool dispatch is order-preserving: every tool-result turn stands behind
\* the assistant turn that requested it with only result turns of that turn in
\* between, the j-th result turn behind an assistant turn carries the
\* correlation id of its j-th invocation, and the invocations are handed to
\* execute_tool in the order the model returned them.
C4_OrderPreserving ==
    /\ \A q \in 1..Len(messages) :
          messages[q].role = "tool" =>
              /\ \E p \in AssistantPositions : p < q
              /\ LET p == Requester(q)
                 IN  /\ \A i \in (p + 1)..q : messages[i].role = "tool"
                     /\ q - p <= Len(messages[p].tool_calls)
                     /\ messages[q].tool_call_id = messages[p].tool_calls[q - p].id
    /\ IsPrefix(dispatched, RequestedIds(messages))

\* C4 witness: a turn with two invocations of different tools has been
\* dispatched completely and both result turns are in the conversation.
C4_Witness ==
    /\ pc = "loop"
    /\ \E p \in AssistantPositions :
        /\ Len(messages[p].tool_calls) = 2
        /\ messages[p].tool_calls[1].name # messages[p].tool_calls[2].name
        /\ p + 2 <= Len(messages)
        /\ messages[p + 1].role = "tool"
        /\ messages[p + 2].role = "tool"
        /\ messages[p + 1].tool_call_id = messages[p].tool_calls[1].id
        /\ messages[p + 2].tool_call_id = messages[p].tool_calls[2].id

\* C5: extraction is total: applied to any text, the inline extraction of
\* analyze and _parse_agent_result both return a report with all its fields and
\* raise nothing.
C5_ExtractionTotal ==
    via # "none" =>
        /\ out.kind = "return"
        /\ out.exc = "none"
        /\ DOMAIN out.report =
              IF via = "inline" THEN ReportFields ELSE ResultRequired \cup ResultOptional

\* the text behind the first occurrence of `opening`, up to the next fence
FenceContent(t, opening) ==
    LET rest == SubSeq(t, Find(t, opening) + Len(opening), Len(t))
    IN  IF Contains(rest, Fence) THEN SubSeq(rest, 1, Find(rest, Fence) - 1) ELSE rest

\* the candidate substring by the ordered attempts: labelled fence, any fence,
\* brace span, raw text
OrderedCandidate(t) ==
    IF Contains(t, FenceJson) THEN FenceContent(t, FenceJson)
    ELSE IF Contains(t, Fence) THEN FenceContent(t, Fence)
    ELSE IF Contains(t, <<"{">>) /\ Contains(t, <<"}">>)
    THEN SubSeq(t, Find(t, <<"{">>), RFind(t, <<"}">>))
    ELSE t

\* C6: both extraction routines select the candidate by the ordered attempts
\* labelled fence, first fence, span from the first '{' to the last '}', full
\* text; in particular prose around a bare, unfenced valid report object yields
\* that object's fields and not a degraded report.
C6_OrderedAttempts ==
    via # "none" =>
        /\ json_str = OrderedCandidate(text)
        /\ ( /\ ~Contains(text, Fence)
             /\ OrderedCandidate(text) = Json("M_full") )
            => /\ out.kind = "return"
               /\ ~out.degraded
               /\ \A k \in DOMAIN FullDict \cap DOMAIN out.report :
                      out.report[k] = FullDict[k].v

\* the identifier the layer has: the event id of the call in the browser
\* variant, none in analyze
LayerIdentifier == IF via = "browser" THEN CallEventId ELSE <<"UNKNOWN">>

HasText == IF via = "browser" THEN truthy ELSE text # <<>>

C8_RiskLevelEnumerated == pc = "done" => result.risk_level \in RiskLevels

\* C9: a failing tool call still yields a result turn: the dispatch of any
\* invocation, whatever its argument text, its keys or its collaborator's
\* reply, raises nothing, appends one tool-result turn with the invocation's
\* correlation id, and goes on to the next invocation or the next request.
C9_FailingToolYieldsResultTurn ==
    [][pc = "tools" =>
          /\ pc' \in {"tools", "loop"}
          /\ error' = "none"
          /\ Len(messages') = Len(messages) + 1
          /\ SubSeq(messages', 1, Len(messages)) = messages
          /\ messages'[Len(messages')].role = "tool"
          /\ messages'[Len(messages')].tool_call_id = CurrentCalls[idx].id]_vars

\* C10: the dispatch of an invocation naming an unregistered tool calls no
\* collaborator, does not fail analyze, and appends the descriptive error text
\* as the tool-result turn for the invocation's correlation id.
C10_UnknownToolBecomesErrorText ==
    [][(pc = "tools" /\ CurrentCalls[idx].name \notin DOMAIN TOOL_FUNCTIONS) =>
          /\ pc' # "failed"
          /\ collab' = collab
          /\ messages' = Append(messages,
                                Msg("tool",
                                    <<"Error: Unknown tool", CurrentCalls[idx].name>>,
                                    <<>>, CurrentCalls[idx].id))]_vars

\* C11: the conversation is strictly append-only during one analyze call: every
\* step leaves the turns already there in place, unchanged and in their order,
\* and adds zero or more turns at the end.
C11_AppendOnly == [][IsPrefix(messages, messages')]_vars

\* C11 witness: the call has ended with a report after a tool round; the
\* conversation has grown from its two initial turns by an assistant turn, a
\* tool-result turn and the final assistant turn.
C11_Witness ==
    /\ pc = "done"
    /\ Len(messages) = 5
    /\ messages[1].role = "system"
    /\ messages[2].role = "user"
    /\ messages[3].role = "assistant"
    /\ messages[4].role = "tool"
    /\ messages[5].role = "assistant"

\* how often the id occurs in the sequence of dispatches
DispatchCount(id) == Cardinality({i \in 1..Len(dispatched) : dispatched[i] = id})

\* how many tool-result turns carry the id
ResultTurnCount(id) ==
    Cardinality({q \in 1..Len(messages) :
                    messages[q].role = "tool" /\ messages[q].tool_call_id = id})

\* a model request is about to be sent or has been sent and is not answered
AtRequest == pc = "await_model" \/ (pc = "loop" /\ iteration < max_iterations)

\* C12: each tool invocation is consumed exactly once: no invocation is ever
\* dispatched twice or answered by two result turns, and when the next model
\* request is sent every invocation of the assistant turns so far has exactly
\* one dispatch and exactly one tool-result turn with its correlation id.
C12_ConsumedExactlyOnce ==
    \A p \in AssistantPositions :
        \A k \in 1..Len(messages[p].tool_calls) :
            LET id == messages[p].tool_calls[k].id
            IN  /\ DispatchCount(id) <= 1
                /\ ResultTurnCount(id) <= 1
                /\ AtRequest => DispatchCount(id) = 1 /\ ResultTurnCount(id) = 1

\* C12 witness: the second request is outstanding after a turn of two
\* invocations, both dispatched and both answered.
C12_Witness ==
    /\ pc = "await_model"
    /\ requests = 2
    /\ Len(messages) = 5
    /\ Len(messages[3].tool_calls) = 2
    /\ Len(dispatched) = 2
    /\ DispatchCount(messages[3].tool_calls[2].id) = 1
    /\ ResultTurnCount(messages[3].tool_calls[2].id) = 1

\* the model has answered with an assistant turn without tool invocations
FinalTurnSeen == \E p \in AssistantPositions : messages[p].tool_calls = <<>>

\* C13: on the first assistant turn without tool invocations the content goes
\* to extraction and the resulting report is returned: that turn is the last
\* of the conversation, the call has ended with a report holding every field,
\* and from then on the report stays as it is, no further model request is sent
\* and no tool is dispatched.
C13_FinalTurnReturnsOnce ==
    /\ [](FinalTurnSeen =>
            /\ messages[Len(messages)].role = "assistant"
            /\ messages[Len(messages)].tool_calls = <<>>
            /\ pc = "done"
            /\ result # NoReport
            /\ DOMAIN result = ReportFields)
    /\ [][FinalTurnSeen =>
            /\ requests' = requests
            /\ dispatched' = dispatched
            /\ messages' = messages
            /\ result' = result]_vars

\* model requests sent and not yet answered: every response is appended as an
\* assistant turn
OutstandingRequests == requests - Cardinality(AssistantPositions)

\* the invocations requested so far that have no tool-result turn
Unanswered ==
    {i \in 1..Len(RequestedIds(messages)) :
        ResultTurnCount(RequestedIds(messages)[i]) = 0}

\* C14: one analyze call is strictly sequential: at most one model request is
\* outstanding, and none while the tool calls of a turn are being dispatched;
\* a step dispatches at most one tool, and only while no model request is
\* outstanding; a model request is sent only while none is outstanding and
\* after every tool result of the previous turn has been appended.
C14_StrictlySequential ==
    /\ [](/\ OutstandingRequests \in {0, 1}
          /\ OutstandingRequests = 1 <=> pc = "await_model"
          /\ pc = "tools" => OutstandingRequests = 0)
    /\ [][/\ Len(dispatched') - Len(dispatched) \in {0, 1}
          /\ dispatched' # dispatched =>
                 OutstandingRequests = 0 /\ requests' = requests
          /\ requests' # requests =>
                 /\ requests' = requests + 1
                 /\ OutstandingRequests = 0
                 /\ Unanswered = {}
                 /\ dispatched' = dispatched]_vars

\* C14 witness: the second model request is outstanding after the one tool
\* call of the first turn has been dispatched and answered.
C14_Witness ==
    /\ pc = "await_model"
    /\ requests = 2
    /\ OutstandingRequests = 1
    /\ Len(messages[3].tool_calls) = 1
    /\ Len(dispatched) = 1
    /\ Unanswered = {}

\* the correlation ids of the invocations the turn at position p requested
IdsOf(p) == {messages[p].tool_calls[k].id : k \in 1..Len(messages[p].tool_calls)}

RECURSIVE LastAssistantBefore(_)
\* position of the nearest assistant turn before position q, 0 if there is none
LastAssistantBefore(q) ==
    IF q <= 1 THEN 0
    ELSE IF messages[q - 1].role = "assistant" THEN q - 1
    ELSE LastAssistantBefore(q - 1)

\* C20: in every reachable state the conversation is well-formed: it starts
\* with the system instruction and then the user input, every later turn is
\* an assistant turn or a tool-result turn, every tool-result turn has an
\* assistant turn before it that requested an invocation with its correlation
\* id, and the turns between an assistant turn and the next assistant turn are
\* tool-result turns for invocations of that assistant turn.
C20_WellFormedConversation ==
    /\ Len(messages) >= 2
    /\ messages[1] = Msg("system", SystemPrompt, <<>>, NoId)
    /\ messages[2].role = "user"
    /\ messages[2].content \in UserInputs
    /\ \A q \in 3..Len(messages) :
          /\ messages[q].role \in {"assistant", "tool"}
          /\ messages[q].role = "tool" =>
                LET p == LastAssistantBefore(q)
                IN  p > 0 /\ messages[q].tool_call_id \in IdsOf(p)

\* C20 witness: two rounds of one tool call each and the final answer: system,
\* user, assistant, tool, assistant, tool, assistant.
C20_Witness ==
    /\ Len(messages) = 7
    /\ [q \in 1..7 |-> messages[q].role] =
          <<"system", "user", "assistant", "tool", "assistant", "tool", "assistant">>
    /\ messages[4].tool_call_id \in IdsOf(3)
    /\ messages[6].tool_call_id \in IdsOf(5)
    /\ IdsOf(7) = {}

\* C16: every model request of the call carries the full conversation
\* accumulated when it was sent (request number i carries every turn before
\* the i-th assistant turn, or the whole conversation while its answer is
\* still to come) together with the same tool descriptors in the same order,
\* and neither the descriptor list nor the name-to-function registry is
\* changed by analyze or by a tool dispatch.
C16_RequestCarriesConversationAndTools ==
    /\ tools = TOOLS
    /\ tool_functions = TOOL_FUNCTIONS
    /\ Len(sent) = requests
    /\ \A i \in 1..Len(sent) :
          LET n == Len(sent[i].messages)
          IN  /\ sent[i].tools = TOOLS
              /\ IsPrefix(sent[i].messages, messages)
              /\ n = Len(messages) \/ messages[n + 1].role = "assistant"
              /\ Cardinality({p \in 1..n : messages[p].role = "assistant"}) = i - 1

\* C16 witness: the second request has been sent with the four turns system,
\* user, assistant, tool and with the descriptors of the first request.
C16_Witness ==
    /\ Len(sent) = 2
    /\ Len(sent[1].messages) = 2
    /\ Len(sent[2].messages) = 4
    /\ sent[2].messages[4].role = "tool"
    /\ sent[2].tools = sent[1].tools
    /\ Len(sent[2].tools) = 2

\* the dict of the report object the final answer embeds
EmbeddedDict ==
    LET m == CHOOSE x \in WellFormedPayloads :
                 Contains(text, FenceJson \o <<"nl">> \o Json(x) \o <<"nl">> \o Fence)
    IN  IF m = "M_fenced" THEN FencedDict ELSE Members(m)

\* C18: round trip: a final answer that embeds the serialization of a
\* well-formed report object in a json-labelled fence, with any prose before
\* and after the fence, is extracted by either routine into a report that is
\* not degraded and whose fields equal the fields of the object.
C18_RoundTrip ==
    via # "none" =>
        /\ out.kind = "return"
        /\ ~out.degraded
        /\ \A k \in DOMAIN out.report \cap DOMAIN EmbeddedDict :
               out.report[k] = EmbeddedDict[k].v

\* C17: the platform tag of an identifier with at least one '-' is the
\* substring before the first '-', empty when the identifier starts with it;
\* the tag of an identifier without '-' is the default "AMS"; the copy of
\* fetch_error_log in main.py and the one in test_fetch.py compute the same
\* tag.
C17_PlatformTag ==
    /\ fetch_copy # "none" =>
          plat_name = IF Contains(fetch_id, <<"-">>)
                      THEN SubSeq(fetch_id, 1, Find(fetch_id, <<"-">>) - 1)
                      ELSE <<"A", "M", "S">>
    /\ PlatName(fetch_id) = TestPlatName(fetch_id)

\* C17 witness: main.py's copy has run on an identifier that starts with the
\* separator and holds a second one, and the tag is empty.
C17_Witness ==
    /\ fetch_copy = "main"
    /\ Len(fetch_id) = 3
    /\ fetch_id[1] = "-"
    /\ fetch_id[3] = "-"
    /\ plat_name = <<>>

\* C19: a fetch never raises and always returns text: a network error, a
\* timeout or an HTTP error status yields the descriptive error text, a login
\* page the text that tells to set the credential, and a prefixed payload that
\* is no JSON or whose result entries are not objects yields the raw body or
\* its serialization.  This holds for both copies of fetch_error_log.
C19_FetchAlwaysReturnsText ==
    fetch_copy # "none" =>
        /\ fetched.kind = "return"
        /\ fetched.exc = "none"
        /\ fetch_reply \in {"network_error", "timeout", "http_error"} =>
               fetched.text = ErrorText
        /\ fetch_reply \in {"login", "login_jump"} => fetched.text = LoginText
        /\ fetch_reply \in {"badjson", "baditems"} =>
               fetched.text \in {Body(fetch_reply), Dumps(Tail(Body(fetch_reply)))}

\* C15: each analyze call owns an independent conversation: when two calls on
\* the same agent interleave, the conversation of a call holds exactly the
\* turns produced for that call, starting with its own user input; every
\* request of the call carried turns of that call only; and the outcome of a
\* call that has ended is what extraction makes of its own final answer.
C15_IndependentConversations ==
    \A c \in Calls :
        /\ Conversation(c) = own[c]
        /\ running[c].pc # "start" =>
               /\ Len(Conversation(c)) >= 2
               /\ Conversation(c)[2].content = UserInputOf(c)
        /\ \A i \in 1..Len(running[c].sent) :
               IsPrefix(running[c].sent[i].messages, own[c])
        /\ (running[c].pc \in {"done", "failed"} /\ running[c].error # "RuntimeError") =>
               LET o == ExtractInline(own[c][Len(own[c])].content)
               IN  running[c].result = o.report /\ running[c].error = o.exc

\* C15 witness: the second request of call 1 is outstanding while call 2 is
\* dispatching the tool call of its first turn.
C15_Witness ==
    /\ running[1].pc = "await_model"
    /\ Len(running[1].sent) = 2
    /\ running[2].pc = "tools"
    /\ Len(lists[1]) = 4
    /\ Len(lists[2]) = 3
    /\ lists[1][2].content # lists[2][2].content

\* position of the latest assistant turn, 0 if there is none
LastAssistant == LastAssistantBefore(Len(messages) + 1)

\* the latest assistant turn carries both content and tool invocations
ContentToolTurn ==
    /\ LastAssistant > 0
    /\ messages[LastAssistant].content # NoneStr
    /\ messages[LastAssistant].tool_calls # <<>>

\* C21: an assistant turn with both content and tool invocations is never
\* taken for the final answer: while it is the latest assistant turn no report
\* has been returned and its content has not been extracted, its invocations
\* are dispatched, and the call goes on to the next model request with every
\* one of them answered, or fails with the budget error if it was the 10th
\* turn, and with no other error.
C21_ContentWithToolsIsNotFinal ==
    ContentToolTurn =>
        /\ result = NoReport
        /\ pc \in {"tools", "loop", "await_model", "failed"}
        /\ pc = "failed" =>
               /\ error = "RuntimeError"
               /\ Cardinality(AssistantPositions) = max_iterations
        /\ pc # "tools" =>
               \A id \in IdsOf(LastAssistant) :
                   DispatchCount(id) = 1 /\ ResultTurnCount(id) = 1

\* the budget-exceeded failure of main.py:450 has been raised
BudgetFailure == pc = "failed" /\ error = "RuntimeError"

====
